---- MODULE Spec2Model ----
(***************************************************************************)
(* Model of the Logitech M720 button remapper                              *)
(* (m720_button_remapper_safe.py) and of the control flow of the           *)
(* benchmarking script (benchmarks/benchmark.py).                          *)
(*                                                                         *)
(* Spec      : main() of the remapper: privilege check, ydotool setup,     *)
(*             device lookup, the select/read/dispatch loop, the release   *)
(*             of the selector and main's exception handlers.              *)
(* BenchSpec : main() and run_all_benchmarks() of the benchmarking script. *)
(***************************************************************************)
EXTENDS Integers, Sequences, FiniteSets, TLC

VARIABLES
    euid_root,      \* os.geteuid() == 0
    devices,        \* the enumeration evdev.list_devices(), in order
    device,         \* index in devices of the device main uses, 0 for None
    listed,         \* indexes printed by main's "Available devices" listing
    pc,             \* position of the remapper's main thread
    registered,     \* the device is registered with the selector
    selector_closed,\* selector.close() has run
    ever_registered,\* selector.register() has run in this execution
    reads,          \* number of device.read() calls made so far
    would_blocks,   \* BlockingIOErrors caught by the loop so far
    batch_left,     \* events of the current device.read() not yet yielded
    processed,      \* iterations of the for-loop body executed so far
    cur,            \* the event of the latest iteration
    calls,          \* number of send_key_combo calls made so far
    mapped_presses, \* processed events that were presses of a remapped button
    keys,           \* argument of the latest send_key_combo call
    inflight,       \* ydotool child processes running
    args,           \* key arguments of the latest ydotool invocation
    held,           \* scancodes the injected keyboard holds pressed
    outcome,        \* how the latest subprocess.run ended
    ret,            \* value returned by the latest send_key_combo call
    exc,            \* exception propagating out of handle_mouse_events
    stop_cause,     \* what made the loop leave `while True`
    stopped_from,   \* where the loop was when it left `while True`
    out,            \* lines printed by the latest step
    b_pc,           \* position of the benchmarking script
    b_root,         \* os.geteuid() == 0 in the benchmarking script
    b_argv,         \* set of command line flags (sys.argv[1:])
    b_given,        \* the flags the operator gave (argv at start)
    b_files,        \* which of the three probed paths exist
    b_spawned,      \* external commands started by the script, in order
    b_results,      \* self.results: approaches with a result, in order
    b_out           \* lines printed by the latest step of the script

vars == <<euid_root, devices, device, listed, pc, registered, selector_closed,
          ever_registered, batch_left, processed, cur, calls, mapped_presses,
          keys, inflight, outcome, ret, exc, stop_cause, stopped_from, reads,
          would_blocks, args, held, out,
          b_pc, b_root, b_argv, b_given, b_files, b_spawned, b_results, b_out>>

remapVars == <<euid_root, devices, device, listed, pc, registered,
               selector_closed, ever_registered, batch_left, processed, cur,
               calls, mapped_presses, keys, inflight, outcome, ret, exc,
               stop_cause, stopped_from, reads, would_blocks, args, held, out>>

benchVars == <<b_pc, b_root, b_argv, b_given, b_files, b_spawned, b_results,
               b_out>>

(***************************************************************************)
(* Bounds of the model.                                                    *)
(***************************************************************************)
MaxDevices == 2     \* longest device enumeration
MaxEvents  == 2     \* events processed in one execution
MaxBatch   == 2     \* most events returned by one device.read()
MaxReads   == 2     \* device.read() calls in one execution
MaxSends   == 3     \* send_key_combo calls of a direct caller

(***************************************************************************)
(* evdev.ecodes: event types and codes (linux/input-event-codes.h).        *)
(***************************************************************************)
EV_SYN == 0
EV_KEY == 1
EV_REL == 2

KEY_A       == 30
BTN_LEFT    == 272
BTN_RIGHT   == 273
BTN_MIDDLE  == 274
BTN_SIDE    == 275
BTN_EXTRA   == 276
BTN_FORWARD == 277
BTN_BACK    == 278
BTN_TASK    == 279

\* event.value of an EV_KEY event: 0 release, 1 press, 2 autorepeat
KeyValues == {0, 1, 2}

KeyCodes == {KEY_A, BTN_LEFT, BTN_SIDE, BTN_EXTRA, BTN_FORWARD, BTN_BACK,
             BTN_TASK}

\* The events a device.read() can yield.
Events ==
    [type : {EV_KEY}, code : KeyCodes, value : KeyValues]
    \cup [type : {EV_REL}, code : {0}, value : {-1, 1}]
    \cup [type : {EV_SYN}, code : {0}, value : {0}]

NoEvent == [type |-> EV_SYN, code |-> 0, value |-> 0]

(***************************************************************************)
(* Device names are character sequences, so that `"M720" in device.name`   *)
(* is a real substring test.                                               *)
(***************************************************************************)
S_M720     == <<"M", "7", "2", "0">>
S_Logitech == <<"L", "o", "g", "i", "t", "e", "c", "h">>

\* Python's `needle in haystack` on str
Contains(haystack, needle) ==
    \E i \in 1 .. (Len(haystack) - Len(needle) + 1) :
        SubSeq(haystack, i, i + Len(needle) - 1) = needle

N_LogiM720  == S_Logitech \o <<" ">> \o S_M720
N_M720BT    == S_M720 \o <<" ", "T", "r", "i">>
N_LogiK380  == S_Logitech \o <<" ", "K", "3", "8", "0">>
N_UsbMouse  == <<"U", "S", "B", " ", "M", "o", "u", "s", "e">>

\* A device: its name and its capabilities(); has_key says whether EV_KEY is
\* a key of the capabilities dict, key_codes is capabilities[EV_KEY].
\* The pool: the mouse (name and buttons), a keyboard and a button-less node
\* of the same vendor (name only), and another vendor's mouse (buttons only).
DevicePool ==
    { [name |-> N_M720BT, has_key |-> TRUE,
       key_codes |-> {BTN_LEFT, BTN_RIGHT, BTN_MIDDLE, BTN_SIDE, BTN_EXTRA,
                      BTN_FORWARD, BTN_BACK}],
      [name |-> N_LogiK380, has_key |-> TRUE, key_codes |-> {KEY_A}],
      [name |-> N_LogiM720, has_key |-> FALSE, key_codes |-> {}],
      [name |-> N_UsbMouse, has_key |-> TRUE,
       key_codes |-> {BTN_LEFT, BTN_RIGHT, BTN_MIDDLE}] }

DeviceLists == UNION { [1 .. n -> DevicePool] : n \in 0 .. MaxDevices }

(***************************************************************************)
(* find_m720_device                                                        *)
(***************************************************************************)
mouse_buttons == {BTN_LEFT, BTN_RIGHT, BTN_MIDDLE, BTN_SIDE, BTN_EXTRA,
                  BTN_FORWARD, BTN_BACK}

NameMatches(d) == Contains(d.name, S_M720) \/ Contains(d.name, S_Logitech)

HasMouseButtons(d) ==
    d.has_key /\ \E btn \in mouse_buttons : btn \in d.key_codes

DeviceMatchesEither(d) == NameMatches(d) \/ HasMouseButtons(d)

\* the two nested ifs of the loop body: the device is returned
DeviceMatches(d) == NameMatches(d) /\ HasMouseButtons(d)

RECURSIVE FindFrom(_, _)
FindFrom(devs, i) ==
    IF i > Len(devs) THEN 0
    ELSE IF DeviceMatches(devs[i]) THEN i
    ELSE FindFrom(devs, i + 1)

\* index of the returned device, 0 for None
find_m720_device(devs) == FindFrom(devs, 1)

\* the "Found potential M720 device" lines printed while searching
RECURSIVE FindPrints(_, _)
FindPrints(devs, i) ==
    IF i > Len(devs) THEN <<>>
    ELSE IF NameMatches(devs[i])
         THEN IF HasMouseButtons(devs[i])
              THEN <<"Found potential M720 device", "This device has mouse buttons">>
              ELSE <<"Found potential M720 device">> \o FindPrints(devs, i + 1)
    ELSE FindPrints(devs, i + 1)


(***************************************************************************)
(* handle_mouse_events: the filters and the if/elif chain of the loop body *)
(***************************************************************************)
PAGE_DOWN == "super+page_down"
PAGE_UP   == "super+page_up"
NoKeys    == "none"

\* the list of `if event.code in [...]`
intercept_codes == {BTN_SIDE, BTN_EXTRA, BTN_FORWARD, BTN_BACK,
                    275, 276, 277, 278}

ShouldInterceptAnyValue(e) ==
    e.type = EV_KEY /\ e.code \in intercept_codes

\* the three nested ifs guarding the remapping of an event
ShouldIntercept(e) ==
    e.type = EV_KEY /\ e.value = 1 /\ e.code \in intercept_codes

KeyComboForBackUp(code) ==
    IF code = BTN_SIDE THEN PAGE_DOWN
    ELSE IF code = BTN_EXTRA \/ code = BTN_FORWARD \/ code = BTN_BACK
         THEN PAGE_UP
    ELSE NoKeys

\* the if/elif chain: the argument of send_key_combo for an intercepted
\* code, NoKeys when no branch of the chain makes a call
KeyComboFor(code) ==
    IF code = BTN_SIDE \/ code = BTN_BACK THEN PAGE_DOWN
    ELSE IF code = BTN_EXTRA \/ code = BTN_FORWARD THEN PAGE_UP
    ELSE IF code \in {275, 276, 277, 278}
         THEN IF code \in {275, 278} THEN PAGE_DOWN ELSE PAGE_UP
    ELSE NoKeys

EventPrintsVerbose(e) ==
    IF ShouldIntercept(e)
    THEN <<"Button pressed">> \o
         (IF KeyComboFor(e.code) = PAGE_DOWN THEN <<"Sending Super + Page Down">>
          ELSE IF KeyComboFor(e.code) = PAGE_UP THEN <<"Sending Super + Page Up">>
          ELSE <<>>)
    ELSE IF e.type = EV_KEY /\ e.value = 1 THEN <<"Button unmapped">>
    ELSE <<>>

\* the lines one iteration of the loop body prints before send_key_combo
EventPrints(e) ==
    IF ShouldIntercept(e)
    THEN <<"Button pressed">> \o
         (IF KeyComboFor(e.code) = PAGE_DOWN THEN <<"Sending Super + Page Down">>
          ELSE IF KeyComboFor(e.code) = PAGE_UP THEN <<"Sending Super + Page Up">>
          ELSE <<>>)
    ELSE <<>>

(***************************************************************************)
(* send_key_combo                                                          *)
(***************************************************************************)
\* how subprocess.run(["ydotool", ...], check=True) can end
RunOutcomes == {"ok", "CalledProcessError", "FileNotFoundError",
                "PermissionError"}

\* a ydotool key argument "<code>:<state>", e.g. "125:1"
Tok(code, state) == [code |-> code, state |-> state]

YdotoolArgsEarlyRelease(k) ==
    IF k = PAGE_UP
    THEN <<Tok(125, 1), Tok(104, 1), Tok(125, 0), Tok(104, 0)>>
    ELSE IF k = PAGE_DOWN
    THEN <<Tok(125, 1), Tok(109, 1), Tok(109, 0), Tok(125, 0)>>
    ELSE <<>>

\* the key arguments of `ydotool key ...` for a key combination, <<>> when
\* neither branch matches and nothing is run
YdotoolArgs(k) ==
    IF k = PAGE_UP
    THEN <<Tok(125, 1), Tok(104, 1), Tok(104, 0), Tok(125, 0)>>
    ELSE IF k = PAGE_DOWN
    THEN <<Tok(125, 1), Tok(109, 1), Tok(109, 0), Tok(125, 0)>>
    ELSE <<>>

\* the pressed set after ydotool has emitted the arguments toks in order
RECURSIVE ApplyTokens(_, _)
ApplyTokens(h, toks) ==
    IF toks = <<>> THEN h
    ELSE ApplyTokens(IF Head(toks).state = 1 THEN h \cup {Head(toks).code}
                     ELSE h \ {Head(toks).code},
                     Tail(toks))

\* the pressed sets a ydotool run that ended with outcome o can leave: all
\* arguments emitted when it exited with 0, none when it was never started,
\* any prefix of them when it exited non-zero or was killed
ToolEffects(o, h, toks) ==
    IF o = "ok" THEN {ApplyTokens(h, toks)}
    ELSE IF o \in {"FileNotFoundError", "PermissionError"} THEN {h}
    ELSE { ApplyTokens(h, SubSeq(toks, 1, n)) : n \in 0 .. Len(toks) }

SendResultNoHandler(o) ==
    IF o = "ok" THEN "True"
    ELSE IF o = "CalledProcessError" THEN "False"
    ELSE "raise"

\* try/except of send_key_combo: what the call does with an outcome
SendResult(o) ==
    IF o = "ok" THEN "True"
    ELSE IF o = "CalledProcessError" THEN "False"
    ELSE IF o = "FileNotFoundError" THEN "False"
    ELSE "raise"

SendPrints(o) ==
    IF o = "CalledProcessError" THEN <<"Error sending key combo">>
    ELSE IF o = "FileNotFoundError" THEN <<"ydotool not found">>
    ELSE <<>>

RunYdotoolDetached(k) ==
    /\ inflight' = inflight + 1
    /\ args' = YdotoolArgs(k)
    /\ outcome' = "running"
    /\ pc' = "ProcessingBatch"

\* subprocess.run: the child is started and the caller blocks until it exits
RunYdotool(k) ==
    /\ inflight' = inflight + 1
    /\ args' = YdotoolArgs(k)
    /\ outcome' = "running"
    /\ pc' = "Injecting"


(***************************************************************************)
(* main of the remapper                                                    *)
(***************************************************************************)
LoopStates == {"WaitingForEvents", "ProcessingBatch", "Injecting"}

loopVarsUnchanged ==
    UNCHANGED <<batch_left, processed, cur, calls, mapped_presses, keys,
                inflight, outcome, ret, exc, stop_cause, stopped_from, reads,
                would_blocks, args, held>>

\* os.geteuid() != 0: guidance is printed and main returns
MainNotRoot ==
    /\ pc = "Main"
    /\ ~euid_root
    /\ out' = <<"This script needs to access input devices.",
                "Please run with sudo:", "sudo python3">>
    /\ pc' = "Exited"
    /\ UNCHANGED <<euid_root, devices, device, listed, registered,
                   selector_closed, ever_registered, benchVars>>
    /\ loopVarsUnchanged

\* what setup_ydotool can meet: the daemon runs, it is started, or pgrep or
\* Popen raise
SetupOutcomes == {"running", "started", "error"}

setup_ydotool(s) == s # "error"

SetupPrints(s) ==
    IF s = "started" THEN <<"Starting ydotool daemon...">>
    ELSE IF s = "error" THEN <<"Error setting up ydotool">>
    ELSE <<>>

\* setup_ydotool() returned False
MainSetupFailed ==
    /\ pc = "Main"
    /\ euid_root
    /\ \E s \in SetupOutcomes :
          /\ ~setup_ydotool(s)
          /\ out' = SetupPrints(s) \o <<"Failed to setup ydotool">>
    /\ pc' = "Exited"
    /\ UNCHANGED <<euid_root, devices, device, listed, registered,
                   selector_closed, ever_registered, benchVars>>
    /\ loopVarsUnchanged

DeviceListingFirstOnly(devs) ==
    IF Len(devs) = 0 THEN <<>> ELSE <<devs[1].name>>

\* the names printed by the "Available devices" loop
DeviceListing(devs) == [i \in 1 .. Len(devs) |-> devs[i].name]

\* find_m720_device() returned None: the devices are listed, main returns
MainDeviceNotFound ==
    /\ pc = "Main"
    /\ euid_root
    /\ \E s \in SetupOutcomes :
          /\ setup_ydotool(s)
          /\ out' = SetupPrints(s) \o FindPrints(devices, 1)
                      \o <<"M720 device not found!", "Available devices:">>
    /\ find_m720_device(devices) = 0
    /\ device' = 0
    /\ listed' = DeviceListing(devices)
    /\ pc' = "Exited"
    /\ UNCHANGED <<euid_root, devices, registered, selector_closed,
                   ever_registered, benchVars>>
    /\ loopVarsUnchanged

\* a device was found: handle_mouse_events(device) prints its banner and
\* registers the device with a new selector
MainEnterLoop ==
    /\ pc = "Main"
    /\ euid_root
    /\ \E s \in SetupOutcomes :
          /\ setup_ydotool(s)
          /\ out' = SetupPrints(s) \o FindPrints(devices, 1)
                      \o <<"Using device", "Monitoring", "Press Ctrl+C to stop">>
    /\ find_m720_device(devices) # 0
    /\ device' = find_m720_device(devices)
    /\ registered' = TRUE
    /\ ever_registered' = TRUE
    /\ pc' = "WaitingForEvents"
    /\ UNCHANGED <<euid_root, devices, listed, selector_closed, benchVars>>
    /\ loopVarsUnchanged

(***************************************************************************)
(* handle_mouse_events: the loop                                           *)
(***************************************************************************)
\* selector.select(timeout=1) returned no event
SelectTimeout ==
    /\ pc = "WaitingForEvents"
    /\ out' = <<>>
    /\ UNCHANGED <<euid_root, devices, device, listed, pc, registered,
                   selector_closed, ever_registered, benchVars>>
    /\ loopVarsUnchanged

\* select reported the device readable and device.read() got n events
SelectReady ==
    /\ pc = "WaitingForEvents"
    /\ processed < MaxEvents
    /\ reads < MaxReads
    /\ \E n \in 1 .. MaxBatch :
          /\ processed + n <= MaxEvents
          /\ batch_left' = n
    /\ reads' = reads + 1
    /\ pc' = "ProcessingBatch"
    /\ out' = <<>>
    /\ UNCHANGED <<euid_root, devices, device, listed, registered,
                   selector_closed, ever_registered, processed, cur, calls,
                   mapped_presses, keys, inflight, outcome, ret, exc,
                   stop_cause, stopped_from, would_blocks, args, held,
                   benchVars>>

\* a press of one of the four remapped buttons (codes 275..278)
IsMappedPress(e) ==
    e.type = EV_KEY /\ e.value = 1 /\ e.code \in 275 .. 278

\* one iteration of `for event in device.read()`, up to the point where
\* send_key_combo blocks in subprocess.run
ProcessEvent ==
    /\ pc = "ProcessingBatch"
    /\ batch_left > 0
    /\ \E e \in Events :
          /\ cur' = e
          /\ mapped_presses' = mapped_presses + (IF IsMappedPress(e) THEN 1 ELSE 0)
          /\ out' = EventPrints(e)
          /\ IF ShouldIntercept(e) /\ KeyComboFor(e.code) # NoKeys
             THEN /\ calls' = calls + 1
                  /\ keys' = KeyComboFor(e.code)
                  /\ IF YdotoolArgs(KeyComboFor(e.code)) # <<>>
                     THEN RunYdotool(KeyComboFor(e.code))
                     ELSE UNCHANGED <<inflight, outcome, args, pc>>
             ELSE UNCHANGED <<calls, keys, inflight, outcome, args, pc>>
    /\ batch_left' = batch_left - 1
    /\ processed' = processed + 1
    /\ UNCHANGED <<euid_root, devices, device, listed, registered,
                   selector_closed, ever_registered, ret, exc, stop_cause,
                   stopped_from, reads, would_blocks, held, benchVars>>

\* the generator is exhausted: back to `while True` and select
BatchDrained ==
    /\ pc = "ProcessingBatch"
    /\ batch_left = 0
    /\ pc' = "WaitingForEvents"
    /\ out' = <<>>
    /\ UNCHANGED <<euid_root, devices, device, listed, registered,
                   selector_closed, ever_registered, benchVars>>
    /\ loopVarsUnchanged

\* exceptions device.read() can raise
ReadErrors == {"BlockingIOError", "OSError"}

ReadHandlerNone(err) == "raise"

\* `except BlockingIOError: continue` around the for loop
ReadHandler(err) == IF err = "BlockingIOError" THEN "continue" ELSE "raise"

WouldBlockReturn ==
    /\ pc' = "Finally"
    /\ stop_cause' = "BlockingIOError"
    /\ stopped_from' = pc

\* `continue` in the BlockingIOError handler: back to `while True` and select
WouldBlockContinue ==
    /\ pc' = "WaitingForEvents"
    /\ UNCHANGED <<stop_cause, stopped_from>>

\* device.read() raised
ReadRaises ==
    /\ pc = "ProcessingBatch"
    /\ \E err \in ReadErrors :
          IF ReadHandler(err) = "continue"
          THEN /\ WouldBlockContinue
               /\ would_blocks' = would_blocks + 1
               /\ UNCHANGED exc
          ELSE /\ pc' = "Finally"
               /\ exc' = err
               /\ stop_cause' = err
               /\ stopped_from' = pc
               /\ UNCHANGED would_blocks
    /\ batch_left' = 0
    /\ out' = <<>>
    /\ UNCHANGED <<euid_root, devices, device, listed, registered,
                   selector_closed, ever_registered, processed, cur, calls,
                   mapped_presses, keys, inflight, outcome, ret, reads,
                   args, held, benchVars>>

\* the ydotool child ended (or could not be started): send_key_combo
\* returns or lets the exception through
InjectReturn ==
    /\ pc = "Injecting"
    /\ inflight' = inflight - 1
    /\ \E o \in RunOutcomes :
          /\ outcome' = o
          /\ held' \in ToolEffects(o, held, args)
          /\ out' = SendPrints(o)
          /\ IF SendResult(o) = "raise"
             THEN /\ pc' = "Finally"
                  /\ exc' = o
                  /\ stop_cause' = o
                  /\ stopped_from' = pc
                  /\ batch_left' = 0
                  /\ UNCHANGED ret
             ELSE /\ pc' = "ProcessingBatch"
                  /\ ret' = SendResult(o)
                  /\ UNCHANGED <<exc, stop_cause, stopped_from, batch_left>>
    /\ UNCHANGED <<euid_root, devices, device, listed, registered,
                   selector_closed, ever_registered, processed, cur, calls,
                   mapped_presses, keys, reads, would_blocks, args,
                   benchVars>>

\* Ctrl+C while the loop waits, processes or injects:
\* `except KeyboardInterrupt` of handle_mouse_events
KeyboardInterrupt ==
    /\ pc \in LoopStates
    /\ pc' = "Finally"
    /\ stop_cause' = "KeyboardInterrupt"
    /\ stopped_from' = pc
    /\ inflight' = 0
    /\ batch_left' = 0
    /\ outcome' = IF pc = "Injecting" THEN "KeyboardInterrupt" ELSE outcome
    /\ held' \in (IF pc = "Injecting"
                  THEN ToolEffects("KeyboardInterrupt", held, args)
                  ELSE {held})
    /\ out' = <<"Stopping mouse button remapper...">>
    /\ UNCHANGED <<euid_root, devices, device, listed, registered,
                   selector_closed, ever_registered, processed, cur, calls,
                   mapped_presses, keys, ret, exc, reads, would_blocks, args,
                   benchVars>>

FinallyReleaseCloseOnly ==
    /\ registered' = registered
    /\ selector_closed' = TRUE

\* finally: selector.unregister(device); selector.close()
FinallyRelease ==
    /\ registered' = FALSE
    /\ selector_closed' = TRUE

\* the finally clause, then the return or the propagation to main
Finally ==
    /\ pc = "Finally"
    /\ FinallyRelease
    /\ pc' = IF exc = "none" THEN "Exited" ELSE "MainExcept"
    /\ out' = <<>>
    /\ UNCHANGED <<euid_root, devices, device, listed, ever_registered,
                   benchVars>>
    /\ loopVarsUnchanged

\* main's except clauses: the lines printed for an exception, <<>> when no
\* clause matches it
MainHandler(e) ==
    IF e = "PermissionError"
    THEN <<"Permission denied accessing input device",
           "Make sure to run with sudo">>
    ELSE IF e = "KeyboardInterrupt" THEN <<"Stopping mouse button remapper...">>
    ELSE IF e \in {"OSError", "BlockingIOError", "CalledProcessError",
                   "FileNotFoundError"}
         THEN <<"Error">>
    ELSE <<>>

\* the exception reaches main's try statement
MainExcept ==
    /\ pc = "MainExcept"
    /\ IF MainHandler(exc) = <<>>
       THEN /\ pc' = "Crashed"
            /\ out' = <<"Traceback">>
       ELSE /\ pc' = "Exited"
            /\ out' = MainHandler(exc)
    /\ UNCHANGED <<euid_root, devices, device, listed, registered,
                   selector_closed, ever_registered, benchVars>>
    /\ loopVarsUnchanged


(***************************************************************************)
(* benchmarks/benchmark.py                                                 *)
(***************************************************************************)
SIMULATE == "--simulate"

CMD_PYTHON == "sudo python3 ../m720_button_remapper_safe.py"
CMD_INSMOD == "sudo insmod ../kernel-module/c-implementation/m720_remapper.ko"
CMD_RMMOD  == "sudo rmmod m720_remapper"

PrivilegedCommands == {CMD_PYTHON, CMD_INSMOD, CMD_RMMOD}

\* the paths probed by check_python_approach, check_kernel_module and
\* check_hybrid_approach
ProbedPaths == {"python", "ko", "hybrid"}

benchRest == UNCHANGED <<b_root, b_given, b_files, remapVars>>

\* main: the privilege note, `sys.argv.append('--simulate')`, and the
\* construction of PerformanceBenchmark
BenchMain ==
    /\ b_pc = "main"
    /\ IF ~b_root /\ SIMULATE \notin b_argv
       THEN /\ b_out' = <<"Note: Some benchmarks require root privileges",
                          "Re-running with simulation mode...">>
            /\ b_argv' = b_argv \cup {SIMULATE}
       ELSE /\ b_out' = <<>>
            /\ UNCHANGED b_argv
    /\ b_pc' = "python"
    /\ UNCHANGED <<b_spawned, b_results>>
    /\ benchRest

\* run_all_benchmarks, first block: check_python_approach and
\* benchmark_python_approach (ok: the 30 s measurement ran; error: an
\* exception was caught and None returned)
BenchPython ==
    /\ b_pc = "python"
    /\ IF "python" \in b_files
       THEN /\ b_spawned' = Append(b_spawned, CMD_PYTHON)
            /\ \E o \in {"ok", "error"} :
                  IF o = "ok"
                  THEN /\ b_results' = Append(b_results, "Python Userspace")
                       /\ b_out' = <<"Testing Python userspace approach...">>
                  ELSE /\ UNCHANGED b_results
                       /\ b_out' = <<"Testing Python userspace approach...",
                                     "Error benchmarking Python approach">>
       ELSE /\ UNCHANGED <<b_spawned, b_results>>
            /\ b_out' = <<>>
    /\ b_pc' = "kernel"
    /\ UNCHANGED b_argv
    /\ benchRest

\* second block: check_kernel_module and benchmark_kernel_module; rmmod
\* runs in the finally clause on both paths
BenchKernel ==
    /\ b_pc = "kernel"
    /\ IF "ko" \in b_files
       THEN /\ b_spawned' = b_spawned \o <<CMD_INSMOD, CMD_RMMOD>>
            /\ \E o \in {"ok", "error"} :
                  IF o = "ok"
                  THEN /\ b_results' = Append(b_results, "Kernel Module")
                       /\ b_out' = <<"Testing kernel module approach...">>
                  ELSE /\ UNCHANGED b_results
                       /\ b_out' = <<"Testing kernel module approach...",
                                     "Error benchmarking kernel module">>
       ELSE /\ UNCHANGED <<b_spawned, b_results>>
            /\ b_out' = <<>>
    /\ b_pc' = "hybrid"
    /\ UNCHANGED b_argv
    /\ benchRest

\* third block: check_hybrid_approach and benchmark_hybrid_approach
BenchHybrid ==
    /\ b_pc = "hybrid"
    /\ IF "hybrid" \in b_files
       THEN /\ b_results' = Append(b_results, "Hybrid (Estimated)")
            /\ b_out' = <<"Testing hybrid approach...",
                          "Hybrid approach not yet implemented for benchmarking">>
       ELSE /\ UNCHANGED b_results
            /\ b_out' = <<>>
    /\ b_pc' = "report"
    /\ UNCHANGED <<b_argv, b_spawned>>
    /\ benchRest

\* generate_report and save_results_json
BenchReport ==
    /\ b_pc = "report"
    /\ b_out' = IF b_results = <<>>
                THEN <<"No benchmark results available">>
                ELSE <<"PERFORMANCE BENCHMARK RESULTS",
                       "Results saved to: benchmark_results.json">>
    /\ b_pc' = "done"
    /\ UNCHANGED <<b_argv, b_spawned, b_results>>
    /\ benchRest

(***************************************************************************)
(* Specifications                                                          *)
(***************************************************************************)
RemapStart ==
    /\ device = 0
    /\ listed = <<>>
    /\ pc = "Main"
    /\ registered = FALSE
    /\ selector_closed = FALSE
    /\ ever_registered = FALSE
    /\ batch_left = 0
    /\ processed = 0
    /\ cur = NoEvent
    /\ calls = 0
    /\ mapped_presses = 0
    /\ keys = NoKeys
    /\ inflight = 0
    /\ outcome = "none"
    /\ ret = "none"
    /\ exc = "none"
    /\ stop_cause = "none"
    /\ stopped_from = "none"
    /\ reads = 0
    /\ would_blocks = 0
    /\ args = <<>>
    /\ held = {}
    /\ out = <<>>

BenchStart ==
    /\ b_pc = "main"
    /\ b_given = b_argv
    /\ b_spawned = <<>>
    /\ b_results = <<>>
    /\ b_out = <<>>

Init ==
    /\ euid_root \in BOOLEAN
    /\ devices \in DeviceLists
    /\ RemapStart
    /\ b_root = FALSE
    /\ b_argv = {}
    /\ b_files = {}
    /\ BenchStart

Next ==
    \/ MainNotRoot
    \/ MainSetupFailed
    \/ MainDeviceNotFound
    \/ MainEnterLoop
    \/ SelectTimeout
    \/ SelectReady
    \/ ProcessEvent
    \/ BatchDrained
    \/ ReadRaises
    \/ InjectReturn
    \/ KeyboardInterrupt
    \/ Finally
    \/ MainExcept

Spec == Init /\ [][Next]_vars

BenchInit ==
    /\ euid_root = FALSE
    /\ devices = <<>>
    /\ RemapStart
    /\ b_root \in BOOLEAN
    /\ b_argv \in SUBSET {SIMULATE}
    /\ b_files \in SUBSET ProbedPaths
    /\ BenchStart

BenchNext ==
    \/ BenchMain
    \/ BenchPython
    \/ BenchKernel
    \/ BenchHybrid
    \/ BenchReport

BenchSpec == BenchInit /\ [][BenchNext]_vars


(***************************************************************************)
(* send_key_combo called directly, with any key name                       *)
(***************************************************************************)
\* key names a caller can pass: the two the function knows and others
KeyNames == {PAGE_UP, PAGE_DOWN, "super+tab", "ctrl+alt+right", ""}

sendRest ==
    UNCHANGED <<euid_root, devices, device, listed, registered,
                selector_closed, ever_registered, reads, would_blocks,
                batch_left, processed, cur, mapped_presses, stop_cause,
                stopped_from, benchVars>>

\* send_key_combo(k) up to subprocess.run, or to `return True` when no
\* branch matches k
SendCall ==
    /\ pc = "Caller"
    /\ calls < MaxSends
    /\ calls' = calls + 1
    /\ \E k \in KeyNames :
          /\ keys' = k
          /\ IF YdotoolArgs(k) # <<>>
             THEN /\ RunYdotool(k)
                  /\ UNCHANGED ret
             ELSE /\ ret' = "True"
                  /\ UNCHANGED <<inflight, args, outcome, pc>>
    /\ out' = <<>>
    /\ UNCHANGED <<held, exc>>
    /\ sendRest

\* subprocess.run ended: send_key_combo returns True or False, or the
\* exception it does not catch reaches the caller
SendReturn ==
    /\ pc = "Injecting"
    /\ inflight' = inflight - 1
    /\ \E o \in RunOutcomes :
          /\ outcome' = o
          /\ held' \in ToolEffects(o, held, args)
          /\ out' = SendPrints(o)
          /\ IF SendResult(o) = "raise"
             THEN /\ exc' = o
                  /\ UNCHANGED ret
             ELSE /\ ret' = SendResult(o)
                  /\ UNCHANGED exc
    /\ pc' = "Caller"
    /\ UNCHANGED <<keys, calls, args>>
    /\ sendRest

SendInit ==
    /\ euid_root = TRUE
    /\ devices = <<>>
    /\ device = 0
    /\ listed = <<>>
    /\ pc = "Caller"
    /\ registered = FALSE
    /\ selector_closed = FALSE
    /\ ever_registered = FALSE
    /\ batch_left = 0
    /\ processed = 0
    /\ cur = NoEvent
    /\ calls = 0
    /\ mapped_presses = 0
    /\ keys = NoKeys
    /\ inflight = 0
    /\ outcome = "none"
    /\ ret = "none"
    /\ exc = "none"
    /\ stop_cause = "none"
    /\ stopped_from = "none"
    /\ reads = 0
    /\ would_blocks = 0
    /\ args = <<>>
    /\ held = {}
    /\ out = <<>>
    /\ b_root = FALSE
    /\ b_argv = {}
    /\ b_files = {}
    /\ BenchStart

SendNext ==
    \/ SendCall
    \/ SendReturn

SendSpec == SendInit /\ [][SendNext]_vars

(***************************************************************************)
(* Properties                                                              *)
(***************************************************************************)
Range(f) == { f[i] : i \in DOMAIN f }

InjectionFailures == {"CalledProcessError", "FileNotFoundError"}

\* C1: the number of send_key_combo calls always equals the number of
\* processed events that are EV_KEY presses (value 1) of a code in 275..278;
\* the call count only changes in the iteration that processes such an event
\* and then by exactly one, so releases, repeats, other events and failed
\* injections (no retry) never add a call.
C1_CallsEqualMappedPresses ==
    /\ [](calls = mapped_presses)
    /\ [][calls' # calls =>
            /\ processed' = processed + 1
            /\ calls' = calls + 1
            /\ cur'.type = EV_KEY /\ cur'.value = 1 /\ cur'.code \in 275 .. 278]_vars

\* a run with a failed injection followed by the release of the same button:
\* one call, no retry, nothing for the release
C1_Witness ==
    /\ processed >= 2
    /\ calls = 1
    /\ outcome \in InjectionFailures
    /\ cur = [type |-> EV_KEY, code |-> BTN_SIDE, value |-> 0]

\* the action each raw code of the configured set is bound to
BoundAction(code) ==
    IF code \in {BTN_SIDE, BTN_BACK, 275, 278} THEN PAGE_DOWN
    ELSE IF code \in {BTN_EXTRA, BTN_FORWARD, 276, 277} THEN PAGE_UP
    ELSE NoKeys

\* C2: whenever the latest processed event is a press of a code of the
\* configured set, the combination handed to send_key_combo for it is the one
\* bound to that code (page_down for BTN_SIDE, BTN_BACK, 275, 278; page_up
\* for BTN_EXTRA, BTN_FORWARD, 276, 277), whatever was processed before.
C2_AliasConsistent ==
    (processed > 0 /\ cur.type = EV_KEY /\ cur.value = 1
        /\ cur.code \in {BTN_SIDE, BTN_EXTRA, BTN_FORWARD, BTN_BACK,
                         275, 276, 277, 278})
    => (keys = BoundAction(cur.code) /\ keys # NoKeys /\ calls > 0)

\* BTN_BACK is injected as page_down after an earlier page_up injection
C2_Witness ==
    /\ pc = "Injecting"
    /\ cur.code = BTN_BACK
    /\ keys = PAGE_DOWN
    /\ calls = 2
    /\ ret = "True"

IsUnmappedPress(e) ==
    e.type = EV_KEY /\ e.value = 1 /\ e.code \notin 275 .. 278

\* C3 (as stated): the iteration that processes a press of an unmapped code
\* makes no send_key_combo call and prints exactly one line.
C3_UnmappedLoggedOnce ==
    [][(processed' = processed + 1 /\ IsUnmappedPress(cur'))
         => (calls' = calls /\ Len(out') = 1)]_vars

\* C3 (amended): the iteration that processes a press of an unmapped code
\* makes no send_key_combo call, starts no injection and prints nothing.
C3_UnmappedSilent ==
    [][(processed' = processed + 1 /\ IsUnmappedPress(cur'))
         => (calls' = calls /\ inflight' = inflight /\ out' = <<>>
             /\ pc' = "ProcessingBatch")]_vars

\* a press of BTN_LEFT has just been processed, nothing was called or printed
C3_Witness ==
    /\ pc = "ProcessingBatch"
    /\ processed = 1
    /\ cur = [type |-> EV_KEY, code |-> BTN_LEFT, value |-> 1]
    /\ calls = 0
    /\ out = <<>>

\* C4: when the running ydotool call ends with CalledProcessError or
\* FileNotFoundError, send_key_combo returns False, one message is printed,
\* no exception leaves the call, and the loop is still in its batch with the
\* remaining events and the device registered.
C4_InjectionFailureNonFatal ==
    [][(outcome = "running" /\ outcome' \in InjectionFailures)
         => /\ ret' = "False"
            /\ Len(out') = 1
            /\ pc' = "ProcessingBatch"
            /\ batch_left' = batch_left
            /\ exc' = "none" /\ stop_cause' = "none"
            /\ registered' /\ ~selector_closed']_vars

\* after a failed injection the loop has started the injection of a later
\* event, read in a later batch
C4_Witness ==
    /\ ret = "False"
    /\ pc = "Injecting"
    /\ reads = 2
    /\ calls = 2
    /\ stop_cause = "none"

\* C5: at most one ydotool child runs at any time and it runs exactly while
\* the loop is blocked in send_key_combo; while it runs no event is read or
\* dispatched; a send_key_combo call starts only when no child is running.
C5_SingleFlight ==
    /\ [](inflight \in {0, 1} /\ (inflight = 1 <=> pc = "Injecting"))
    /\ [][inflight > 0 =>
            /\ processed' = processed
            /\ reads' = reads
            /\ calls' = calls
            /\ cur' = cur]_vars
    /\ [][calls' # calls => (inflight = 0 /\ inflight' = 1)]_vars

\* the second of two mapped presses of one batch is being injected
C5_Witness ==
    /\ pc = "Injecting"
    /\ reads = 1
    /\ processed = 2
    /\ calls = 2
    /\ inflight = 1


\* C6 (as stated): the loop leaves its running states (waiting, processing,
\* injecting) only because of a KeyboardInterrupt.
C6_StoppedOnlyOnInterrupt ==
    [][(pc \in LoopStates /\ pc' \notin LoopStates)
         => stop_cause' = "KeyboardInterrupt"]_vars

\* exceptions the loop and send_key_combo have no handler for
UnanticipatedErrors == {"OSError", "PermissionError"}

\* C6 (amended): the loop leaves its running states only because of a
\* KeyboardInterrupt or of an exception it has no handler for (an error other
\* than BlockingIOError from device.read(), an error other than
\* CalledProcessError and FileNotFoundError from the injection); every other
\* step taken in a running state (select timeout, data ready, an event
\* mapped or not, a drained batch, BlockingIOError, an injection that
\* succeeded, failed or found no tool) stays in the running states.
C6_StoppedOnlyOnInterruptOrError ==
    [][(pc \in LoopStates /\ pc' \notin LoopStates)
         => /\ pc' = "Finally"
            /\ stopped_from' = pc
            /\ \/ stop_cause' = "KeyboardInterrupt" /\ exc' = "none"
               \/ /\ stop_cause' \in UnanticipatedErrors
                  /\ exc' = stop_cause'
                  /\ (pc = "ProcessingBatch" => stop_cause' = "OSError")
                  /\ (pc = "Injecting" => outcome' = "PermissionError")
                  /\ pc # "WaitingForEvents"]_vars

\* the loop was interrupted while it was draining a later batch, after a
\* failed injection that did not stop it
C6_Witness ==
    /\ pc = "Finally"
    /\ stop_cause = "KeyboardInterrupt"
    /\ stopped_from = "ProcessingBatch"
    /\ ret = "False"
    /\ reads >= 2

\* C7: once the device has been registered, main never ends with the device
\* still registered or the selector open: the release has happened when the
\* exception reaches main's handlers and when main has returned; main never
\* ends with an uncaught exception, an exception that left the loop is
\* reported by main's handlers; and after the loop has stopped no
\* send_key_combo call is made and no ydotool child runs.
C7_ReleasedOnEveryExit ==
    /\ []((ever_registered /\ pc \in {"MainExcept", "Exited", "Crashed"})
            => (~registered /\ selector_closed))
    /\ [](pc # "Crashed")
    /\ []((pc = "Exited" /\ exc # "none") => (Len(out) >= 1 /\ out[1] # "Traceback"))
    /\ []((ever_registered /\ pc \notin LoopStates) => inflight = 0)
    /\ [][(ever_registered /\ pc \notin LoopStates)
            => (calls' = calls /\ inflight' = inflight /\ reads' = reads
                /\ processed' = processed)]_vars

\* main has returned after device.read() raised OSError in a run that had
\* injected before: the selector is released and the error was printed
C7_Witness ==
    /\ pc = "Exited"
    /\ exc = "OSError"
    /\ calls >= 1
    /\ ~registered /\ selector_closed
    /\ out = <<"Error">>

\* no enumerated device has both a matching name and a mouse button
NoDeviceMatches ==
    \A i \in 1 .. Len(devices) :
        ~ /\ (Contains(devices[i].name, S_M720)
                \/ Contains(devices[i].name, S_Logitech))
          /\ devices[i].has_key
          /\ devices[i].key_codes \cap {BTN_LEFT, BTN_RIGHT, BTN_MIDDLE, BTN_SIDE,
                                        BTN_EXTRA, BTN_FORWARD, BTN_BACK} # {}

NotFoundReported == "M720 device not found!" \in Range(out)

\* C8: when no enumerated device matches, the run never registers a device,
\* reads an event or calls send_key_combo, it goes from main's start straight
\* to its end, and when it got past the privilege check and the ydotool
\* setup it ends having printed "M720 device not found!" and the name of
\* every enumerated device, in enumeration order.
C8_NotFoundListsAllDevices ==
    NoDeviceMatches =>
        /\ pc \in {"Main", "Exited"}
        /\ ~ever_registered /\ ~registered
        /\ reads = 0 /\ processed = 0 /\ calls = 0 /\ inflight = 0
        /\ (pc = "Main" => listed = <<>>)
        /\ (pc = "Exited" /\ euid_root /\ "Failed to setup ydotool" \notin Range(out))
              => /\ NotFoundReported
                 /\ Len(listed) = Len(devices)
                 /\ \A i \in 1 .. Len(devices) : listed[i] = devices[i].name

\* two devices, one matching by name only and one by buttons only: both are
\* listed and main has returned
C8_Witness ==
    /\ pc = "Exited"
    /\ NotFoundReported
    /\ Len(devices) = 2
    /\ devices[1].name = N_LogiK380
    /\ devices[2].name = N_UsbMouse
    /\ listed = <<N_LogiK380, N_UsbMouse>>

\* the claim's two conditions on a device
C9_NameOK(d) == Contains(d.name, S_M720) \/ Contains(d.name, S_Logitech)
C9_ButtonsOK(d) ==
    d.has_key /\ d.key_codes \cap {BTN_LEFT, BTN_RIGHT, BTN_MIDDLE, BTN_SIDE,
                                   BTN_EXTRA, BTN_FORWARD, BTN_BACK} # {}

\* C9: for the enumerated list, find_m720_device returns None exactly when no
\* device has both a matching name and a mouse button, and otherwise the
\* first device in enumeration order that has both; the device main then
\* monitors is that device, and main reports "not found" only when there is
\* none.
C9_FirstMatchingDevice ==
    LET r == find_m720_device(devices)
        ok(i) == C9_NameOK(devices[i]) /\ C9_ButtonsOK(devices[i])
    IN  /\ r \in 0 .. Len(devices)
        /\ (r = 0 <=> \A i \in 1 .. Len(devices) : ~ok(i))
        /\ (r # 0 => (ok(r) /\ \A j \in 1 .. (r - 1) : ~ok(j)))
        /\ (ever_registered => (device = r /\ r # 0))
        /\ (NotFoundReported => (r = 0 /\ device = 0))

\* the first device matches by name only and is skipped, the second is used
C9_Witness ==
    /\ ever_registered
    /\ Len(devices) = 2
    /\ devices[1].name = N_LogiK380
    /\ device = 2

\* C10: in a run whose arguments contain --simulate, no privileged command
\* (sudo python3 on the remapper, sudo insmod, sudo rmmod) is started.
C10_SimulateSkipsPrivilegedSteps ==
    (SIMULATE \in b_argv) =>
        \A i \in 1 .. Len(b_spawned) : b_spawned[i] \notin PrivilegedCommands


\* C11: the step in which the loop catches a BlockingIOError raised by
\* device.read() ends the batch and nothing else: the loop is back in
\* WaitingForEvents with the device still registered, no exception is
\* propagating and no stop is recorded, and the counts of processed events
\* and of send_key_combo calls, the latest call's argument, outcome and
\* return value are what they were (no injection is undone or repeated).
C11_WouldBlockEndsBatchOnly ==
    [][would_blocks' = would_blocks + 1 =>
         /\ pc = "ProcessingBatch" /\ pc' = "WaitingForEvents"
         /\ batch_left' = 0
         /\ registered' /\ ~selector_closed'
         /\ exc' = "none" /\ stop_cause' = "none"
         /\ processed' = processed /\ calls' = calls
         /\ mapped_presses' = mapped_presses
         /\ inflight = 0 /\ inflight' = 0
         /\ keys' = keys /\ outcome' = outcome /\ ret' = ret /\ cur' = cur]_vars

\* after one caught BlockingIOError the loop has read a later batch and is
\* injecting for the second mapped press of the run
C11_Witness ==
    /\ would_blocks = 1
    /\ reads = 2
    /\ processed = 2
    /\ calls = 2
    /\ pc = "Injecting"
    /\ stop_cause = "none"


\* press and release tokens nest like brackets: a release names the most
\* recently pressed key that is still down, and nothing is down at the end
RECURSIVE NestedFrom(_, _)
NestedFrom(stack, toks) ==
    IF toks = <<>> THEN stack = <<>>
    ELSE IF Head(toks).state = 1
         THEN NestedFrom(<<Head(toks).code>> \o stack, Tail(toks))
    ELSE /\ stack # <<>>
         /\ Head(stack) = Head(toks).code
         /\ NestedFrom(Tail(stack), Tail(toks))

\* C12: whenever ydotool runs, it is one invocation whose key arguments are
\* 125:1 104:1 104:0 125:0 for "super+page_up" and 125:1 109:1 109:0 125:0
\* for "super+page_down": a well-nested chord that presses 125 first and
\* releases it last; a run that completed leaves none of its scancodes
\* pressed, the pressed set only changes when a run ends, and a call with
\* any other key name starts nothing and changes nothing.
C12_CompleteWellNestedChord ==
    /\ [](pc = "Injecting" =>
            /\ inflight = 1
            /\ keys \in {PAGE_UP, PAGE_DOWN}
            /\ (keys = PAGE_UP =>
                  args = <<[code |-> 125, state |-> 1], [code |-> 104, state |-> 1],
                           [code |-> 104, state |-> 0], [code |-> 125, state |-> 0]>>)
            /\ (keys = PAGE_DOWN =>
                  args = <<[code |-> 125, state |-> 1], [code |-> 109, state |-> 1],
                           [code |-> 109, state |-> 0], [code |-> 125, state |-> 0]>>)
            /\ NestedFrom(<<>>, args)
            /\ args[1] = [code |-> 125, state |-> 1]
            /\ args[Len(args)] = [code |-> 125, state |-> 0])
    /\ [][(outcome = "running" /\ outcome' = "ok")
            => /\ held' = held \ { args[i].code : i \in 1 .. Len(args) }
               /\ (held = {} => held' = {})]_vars
    /\ [][held' # held => (outcome = "running" /\ outcome' # "running")]_vars
    /\ [][(calls' = calls + 1 /\ keys' \notin {PAGE_UP, PAGE_DOWN})
            => /\ inflight = 0 /\ inflight' = 0
               /\ pc' = pc
               /\ args' = args /\ held' = held /\ outcome' = outcome
               /\ ret' = "True"]_vars

\* three calls, the last a completed page_down injection: nothing is pressed
C12_Witness ==
    /\ pc = "Caller"
    /\ calls = 3
    /\ keys = PAGE_DOWN
    /\ outcome = "ok"
    /\ ret = "True"
    /\ args = <<[code |-> 125, state |-> 1], [code |-> 109, state |-> 1],
                [code |-> 109, state |-> 0], [code |-> 125, state |-> 0]>>
    /\ held = {}

====
